---- MODULE Spec2Model ----
(***************************************************************************)
(* Model of flight/PiOS/Common/pios_rfm22b.c (the build without            *)
(* PIOS_INCLUDE_FREERTOS: devices come from the static pool).              *)
(*                                                                         *)
(* Two execution contexts touch a device record.  The task context runs    *)
(* one channel operation at a time, statement by statement (pc, locals).   *)
(* The RTC tick, PIOS_RFM22B_Timer_Callback, is an interrupt: it runs to   *)
(* completion and may fire between any two statements of the task.         *)
(* The variable ev records what the last step did to the outside world     *)
(* (packet handler, transport, callbacks); the s_ variables remember       *)
(* facts about the past that the properties speak about.                   *)
(***************************************************************************)
EXTENDS Integers, Sequences, FiniteSets, TLC

\* ---------------------------------------------------------------- bounds
PH_MAX_DATA == 2              \* payload capacity of a packet (scaled down)
MaxSendTimeout == 2           \* cfg->sendTimeout ranges over 0..MaxSendTimeout
MaxMinPacketSize == 3         \* cfg->minPacketSize ranges over 0..MaxMinPacketSize
NumTxPackets == 2             \* packets in a packet handler's transmit window
MaxWrapTicks == 2             \* ticks explored after the countdown wrapped

\* ------------------------------------------------------- program constants
PIOS_RFM22B_DEV_MAGIC == 1755935158   \* 0x68e971b6
\* capacity of pios_rfm22b_devs[]; the value is set in pios_rfm22b_priv.h
PIOS_RFM22B_MAX_DEVS == 1
RX_BUF_LEN == 16
\* TLC's integers are 32 bits wide.  A uint32_t value v is held as v when
\* v < 2^31 and as v - 2^32 otherwise: 0xFFFFFFFF is -1, and "v > 0" on the
\* unsigned value is "v # 0" on the held one.
UINT32_MAX == 0 - 1
PACKET_TYPE_DATA == 1
\* a tag value other than the magic, as left by memory corruption
BAD_MAGIC == PIOS_RFM22B_DEV_MAGIC + 1

NULL == 0

Devs == 1..PIOS_RFM22B_MAX_DEVS
Pkts == 1..NumTxPackets
\* the non-null callback functions and the context words of the receive side
Callbacks == {1, 2}
Contexts == {1, 2}
\* what bind_rx_cb and bind_tx_cb are called with: a callback, or NULL to
\* unbind, and a context word.  Each receive callback function comes with a
\* context word of its own; the transmit side has one callback function.
RxBindArgs ==
  {a \in ({NULL} \cup Callbacks) \X Contexts :
     a[2] = IF a[1] = NULL THEN 1 ELSE a[1]}
TxBindArgs == {NULL, 1} \X {1}
\* byte counts PIOS_COM_ReceiveBuffer may return for a 16 byte request
RxCounts == {0, 1, RX_BUF_LEN}

\* struct pios_rfm22b_cfg: the fields this file reads after PHInitialize
Cfgs == [sendTimeout : 0..MaxSendTimeout, minPacketSize : 0..MaxMinPacketSize]
NullCfg == [sendTimeout |-> 0, minPacketSize |-> 0]

\* mutation of CountdownReload: the quotient is rounded to the nearest integer
Mutant_CountdownRound(cfg) == (cfg.sendTimeout * 16 + 5) \div 10

\* mutation of CountdownReload: the conversion to ticks is left out
Mutant_CountdownReload(cfg) == cfg.sendTimeout

\* (uint32_t)((float)(cfg->sendTimeout) / 0.625): truncation toward zero
CountdownReload(cfg) == (cfg.sendTimeout * 8) \div 5

\* a zero-initialised struct pios_rfm22b_dev (static storage)
ZeroDev ==
  [ magic |-> 0, cfg |-> NullCfg, countdown_timer |-> 0,
    rx_in_cb |-> NULL, rx_in_context |-> 0,
    tx_out_cb |-> NULL, tx_out_context |-> 0,
    cur_tx_packet |-> NULL ]

VARIABLES
  pios_rfm22b_devs,      \* the device pool
  pios_rfm22b_num_devs,  \* devices handed out so far
  registered,            \* devices the RTC delivers ticks to
  pkts,                  \* pkts[d][k]: packet k of d's packet handler
  pc,                    \* position of the task context
  t_dev, t_p, t_n,       \* locals of the running operation: device, p, bytes_to_send
  t_cb, t_ctx,           \* arguments of the running bind operation
  halted,                \* PIOS_Assert failed or a hard fault: the process stopped
  ev,                    \* the externally visible effects of the last step
  s_quiet,               \* s_quiet[d]: so far every pull left data_size below
                         \* minPacketSize and no tick brought the countdown to zero
  s_age,                 \* s_age[d]: ticks run since cur_tx_packet was set
  s_since,               \* s_since[d]: ticks run since countdown_timer was loaded
  s_loader,              \* s_loader[d]: what loaded it: "init", "tx" or "tick"
  s_preempted,           \* a tick ran inside the running or the last operation
  s_rxBind, s_txBind     \* context given by the bind call that stored the callback

vars == << pios_rfm22b_devs, pios_rfm22b_num_devs, registered, pkts, pc,
           t_dev, t_p, t_n, t_cb, t_ctx, halted, ev,
           s_quiet, s_age, s_since, s_loader, s_preempted, s_rxBind, s_txBind >>

NoEv ==
  [ op |-> "none", dev |-> 0, ret |-> 0,
    got |-> -1,          \* result of PHGetTXPacket (-1: not called)
    cur |-> NULL,        \* Tick: cur_tx_packet when the tick began
    txpkt |-> NULL,      \* packet passed to PHTransmitPacket
    sendlen |-> -1,      \* length passed to PIOS_COM_SendBuffer (-1: not called)
    size |-> -1,         \* header.data_size the step tested or transmitted
    offset |-> -1,       \* offset into p->data given to the transmit callback
    room |-> -1,         \* room given to the transmit callback
    ticks |-> -1,        \* Tick: ticks since the countdown was loaded, this one included
    rxread |-> FALSE,    \* PIOS_COM_ReceiveBuffer was called
    rxlen |-> -1,        \* what it returned (-1: not called)
    counted |-> FALSE,   \* Tick: the countdown step ran
    before |-> 0,        \* Tick: countdown_timer when the step began
    after |-> 0,         \* Tick: countdown_timer after the decrement
    tickwrote |-> FALSE, \* Tick: the tick changed a packet
    cbkind |-> "none",   \* callback invoked: "rx", "tx" or "none"
    cb |-> NULL, ctx |-> 0, cblen |-> -1,
    expired |-> FALSE,   \* the countdown reached zero in this step
    stale |-> FALSE,     \* the step wrote or transmitted a packet that had
                         \* already been handed to PHTransmitPacket
    changed |-> FALSE ]  \* the step changed the pool, a record or a packet

\* a packet of the packet handler: its header fields; held: obtained from
\* PHGetTXPacket and not yet handed to PHTransmitPacket; pulled: bytes the
\* transmit callback reported producing into it since it was initialised;
\* sent: bytes of it passed to PIOS_COM_SendBuffer since then
FreePkt == [type |-> 0, data_size |-> 0, held |-> FALSE, pulled |-> 0, sent |-> 0]

Init ==
  /\ pios_rfm22b_devs = [d \in Devs |-> ZeroDev]
  /\ pios_rfm22b_num_devs = 0
  /\ registered = {}
  /\ pkts = [d \in Devs |-> [k \in Pkts |-> FreePkt]]
  /\ pc = "idle"
  /\ t_dev = 0 /\ t_p = NULL /\ t_n = 0 /\ t_cb = NULL /\ t_ctx = 0
  /\ halted = FALSE
  /\ ev = NoEv
  /\ s_quiet = [d \in Devs |-> TRUE]
  /\ s_age = [d \in Devs |-> 0]
  /\ s_since = [d \in Devs |-> 0]
  /\ s_loader = [d \in Devs |-> "init"]
  /\ s_preempted = FALSE
  /\ s_rxBind = [d \in Devs |-> 0]
  /\ s_txBind = [d \in Devs |-> 0]

\* mutation of PIOS_RFM22B_validate: any non-zero tag passes
Mutant_validate(dev) == dev.magic # 0

\* static bool PIOS_RFM22B_validate(struct pios_rfm22b_dev *)
PIOS_RFM22B_validate(dev) == dev.magic = PIOS_RFM22B_DEV_MAGIC

\* handles PIOS_RFM22B_Init has returned
Created == 1..pios_rfm22b_num_devs

TaskVars == << pc, t_dev, t_p, t_n, t_cb, t_ctx >>
HistVars == << s_quiet, s_age, s_since, s_loader, s_preempted, s_rxBind, s_txBind >>
\* the history variables a step of the task context leaves alone unless it says so
DevHist == << s_quiet, s_age, s_since, s_loader >>
BindHist == << s_rxBind, s_txBind >>

\* the step changed the pool, a device record or a packet
Changed ==
  \/ pios_rfm22b_devs' # pios_rfm22b_devs
  \/ pios_rfm22b_num_devs' # pios_rfm22b_num_devs
  \/ registered' # registered
  \/ pkts' # pkts

\* mutation of AssertFails: the failed assertion lets the process run on
Mutant_AssertFails(op, d) ==
  /\ halted' = halted
  /\ UNCHANGED << pios_rfm22b_devs, pios_rfm22b_num_devs, registered, pkts,
                  TaskVars, HistVars >>
  /\ ev' = [NoEv EXCEPT !.op = op, !.dev = d, !.ret = -2, !.changed = Changed]

\* PIOS_Assert(valid) failing: the process halts, nothing else is touched
AssertFails(op, d) ==
  /\ halted' = TRUE
  /\ UNCHANGED << pios_rfm22b_devs, pios_rfm22b_num_devs, registered, pkts,
                  TaskVars, HistVars >>
  /\ ev' = [NoEv EXCEPT !.op = op, !.dev = d, !.ret = -2, !.changed = Changed]

\* ------------------------------------------------------------ allocation
\* mutation of PIOS_RFM22B_alloc_fails: the bound test is off by one
Mutant_alloc_fails == pios_rfm22b_num_devs > PIOS_RFM22B_MAX_DEVS

\* PIOS_RFM22B_alloc (static pool): NULL when the pool is used up
PIOS_RFM22B_alloc_fails == pios_rfm22b_num_devs >= PIOS_RFM22B_MAX_DEVS

\* int32_t PIOS_RFM22B_Init(uint32_t *rfm22b_id, const struct pios_rfm22b_cfg *cfg)
PIOS_RFM22B_Init(cfg) ==
  /\ ~halted /\ pc = "idle"
  /\ IF PIOS_RFM22B_alloc_fails
       THEN /\ UNCHANGED << pios_rfm22b_devs, pios_rfm22b_num_devs, registered, pkts >>
            /\ ev' = [NoEv EXCEPT !.op = "Init", !.ret = -1, !.changed = Changed]
       ELSE LET d == pios_rfm22b_num_devs + 1 IN
            /\ pios_rfm22b_num_devs' = d
            /\ pios_rfm22b_devs' = [pios_rfm22b_devs EXCEPT ![d] =
                 [@ EXCEPT !.magic = PIOS_RFM22B_DEV_MAGIC,
                           !.cfg = cfg,
                           !.cur_tx_packet = NULL,
                           !.countdown_timer = CountdownReload(cfg)]]
            /\ pkts' = [pkts EXCEPT ![d] = [k \in Pkts |-> FreePkt]]
            /\ registered' = registered \cup {d}
            /\ ev' = [NoEv EXCEPT !.op = "Init", !.dev = d, !.ret = 0,
                                  !.changed = Changed]
  /\ s_preempted' = FALSE
  /\ UNCHANGED << TaskVars, halted, DevHist, BindHist >>

\* ------------------------------------------- packet handler and transport
\* PHGetTXPacket(instance): the first free packet of the transmit window, or
\* none (the window may be full for reasons of the library's own)
PHGetTXPacket(d) ==
  {NULL} \cup {k \in Pkts : ~pkts[d][k].held /\ \A j \in 1..(k-1) : pkts[d][j].held}

\* static uint8_t PIOS_RFM22B_send_packet(PHPacketHandle packet): the length
\* it passes to PIOS_COM_SendBuffer
PIOS_RFM22B_send_packet(packet) == packet.header_data_size

\* PHTransmitPacket(instance, p): the packet goes out through output_stream
\* (PIOS_RFM22B_send_packet) and returns to the packet handler
PHTransmitPacket(ps, p) ==
  [ps EXCEPT ![p].held = FALSE,
             ![p].sent = @ + PIOS_RFM22B_send_packet(
                               [header_data_size |-> ps[p].data_size])]

\* the effects of one PHTransmitPacket(d, p) on ev
TransmitEv(e, d, p) ==
  [e EXCEPT !.txpkt = p,
            !.stale = ~pkts[d][p].held,
            !.size = pkts[d][p].data_size,
            !.sendlen = PIOS_RFM22B_send_packet(
                          [header_data_size |-> pkts[d][p].data_size])]

\* ------------------------------------------------------------------ tick
\* --rfm22b_dev->countdown_timer on a uint32_t
CountdownDecrement(c) == IF c = 0 THEN UINT32_MAX ELSE c - 1

\* the test "> 0" of if (--rfm22b_dev->countdown_timer > 0), unsigned
CountdownRunning(c) == c # 0

\* the model follows a wrapped countdown for MaxWrapTicks ticks only
TickExplored(dev) == dev.countdown_timer # UINT32_MAX - MaxWrapTicks

\* mutation of RxReads: the transport is read whether or not a callback is bound
Mutant_RxReads(dev) == TRUE

\* if (rfm22b_dev->rx_in_cb): the tick reads the transport
RxReads(dev) == dev.rx_in_cb # NULL

\* static void PIOS_RFM22B_Timer_Callback(uint32_t dev_id): runs to
\* completion, whatever the task context is doing
PIOS_RFM22B_Timer_Callback(d) ==
  /\ ~halted /\ d \in registered
  /\ UNCHANGED << pios_rfm22b_num_devs, registered, TaskVars, halted >>
  /\ s_preempted' = (s_preempted \/ pc # "idle")
  /\ LET dev == pios_rfm22b_devs[d] IN
     IF ~PIOS_RFM22B_validate(dev)
       THEN \* invalid device specified: return
            /\ UNCHANGED << pios_rfm22b_devs, pkts, DevHist, BindHist >>
            /\ ev' = [NoEv EXCEPT !.op = "Tick", !.dev = d, !.ret = -1,
                                  !.changed = Changed]
       ELSE
         /\ TickExplored(dev)
         /\ \E rx_bytes \in RxCounts :
            LET read == RxReads(dev)
                call == read /\ rx_bytes > 0
                c == CountdownDecrement(dev.countdown_timer)
                expired == ~CountdownRunning(c)
                p == dev.cur_tx_packet
                flush == expired /\ p # NULL
                e1 == [NoEv EXCEPT !.op = "Tick", !.dev = d,
                                   !.rxread = read, !.expired = expired,
                                   !.rxlen = IF read THEN rx_bytes ELSE -1,
                                   !.counted = TRUE,
                                   !.before = dev.countdown_timer,
                                   !.after = c,
                                   !.cur = p,
                                   !.ticks = s_since[d] + 1]
                e2 == IF call
                        THEN [e1 EXCEPT !.cbkind = "rx", !.cb = dev.rx_in_cb,
                                        !.ctx = dev.rx_in_context,
                                        !.cblen = rx_bytes]
                        ELSE e1
            IN
            /\ (~read => rx_bytes = 0)
            /\ pios_rfm22b_devs' = [pios_rfm22b_devs EXCEPT ![d] =
                 [@ EXCEPT !.countdown_timer =
                             IF expired THEN CountdownReload(dev.cfg) ELSE c,
                           !.cur_tx_packet = IF expired THEN NULL ELSE p]]
            /\ pkts' = IF flush
                         THEN [pkts EXCEPT ![d] = PHTransmitPacket(@, p)]
                         ELSE pkts
            /\ ev' = [(IF flush THEN TransmitEv(e2, d, p) ELSE e2)
                        EXCEPT !.changed = Changed, !.tickwrote = (pkts' # pkts)]
            /\ s_quiet' = [s_quiet EXCEPT ![d] = @ /\ ~expired]
            /\ s_age' = [s_age EXCEPT ![d] =
                 IF p # NULL /\ ~expired THEN @ + 1 ELSE 0]
            /\ s_since' = [s_since EXCEPT ![d] = IF expired THEN 0 ELSE @ + 1]
            /\ s_loader' = [s_loader EXCEPT ![d] = IF expired THEN "tick" ELSE @]
            /\ UNCHANGED BindHist

\* memory corruption overwrites the identity tag of a device record
CorruptMagic(d) ==
  /\ ~halted /\ pc = "idle" /\ d \in Created
  /\ PIOS_RFM22B_validate(pios_rfm22b_devs[d])
  /\ pios_rfm22b_devs' = [pios_rfm22b_devs EXCEPT ![d].magic = BAD_MAGIC]
  /\ UNCHANGED << pios_rfm22b_num_devs, registered, pkts, TaskVars, halted,
                  HistVars >>
  /\ ev' = [NoEv EXCEPT !.op = "Corrupt", !.dev = d, !.changed = Changed]

\* ------------------------------------------------ channel interface: stubs
\* mutation of PIOS_RFM22B_RxStart: the call restarts the countdown
Mutant_RxStart(d) ==
  /\ ~halted /\ pc = "idle" /\ d \in Created
  /\ IF ~PIOS_RFM22B_validate(pios_rfm22b_devs[d])
       THEN AssertFails("RxStart", d)
       ELSE /\ pios_rfm22b_devs' = [pios_rfm22b_devs EXCEPT ![d].countdown_timer =
                                     CountdownReload(pios_rfm22b_devs[d].cfg)]
            /\ UNCHANGED << pios_rfm22b_num_devs, registered,
                            pkts, TaskVars, halted, DevHist, BindHist >>
            /\ s_preempted' = FALSE
            /\ ev' = [NoEv EXCEPT !.op = "RxStart", !.dev = d,
                                  !.changed = Changed]

\* static void PIOS_RFM22B_RxStart(uint32_t rfm22b_id, uint16_t rx_bytes_avail)
PIOS_RFM22B_RxStart(d) ==
  /\ ~halted /\ pc = "idle" /\ d \in Created
  /\ IF ~PIOS_RFM22B_validate(pios_rfm22b_devs[d])
       THEN AssertFails("RxStart", d)
       ELSE /\ UNCHANGED << pios_rfm22b_devs, pios_rfm22b_num_devs, registered,
                            pkts, TaskVars, halted, DevHist, BindHist >>
            /\ s_preempted' = FALSE
            /\ ev' = [NoEv EXCEPT !.op = "RxStart", !.dev = d,
                                  !.changed = Changed]

\* static void PIOS_RFM22B_ChangeBaud(uint32_t rfm22b_id, uint32_t baud)
PIOS_RFM22B_ChangeBaud(d) ==
  /\ ~halted /\ pc = "idle" /\ d \in Created
  /\ IF ~PIOS_RFM22B_validate(pios_rfm22b_devs[d])
       THEN AssertFails("ChangeBaud", d)
       ELSE /\ UNCHANGED << pios_rfm22b_devs, pios_rfm22b_num_devs, registered,
                            pkts, TaskVars, halted, DevHist, BindHist >>
            /\ s_preempted' = FALSE
            /\ ev' = [NoEv EXCEPT !.op = "ChangeBaud", !.dev = d,
                                  !.changed = Changed]

\* ------------------------------------------- channel interface: callbacks
\* PIOS_RFM22B_RegisterRxCallback, up to and including the context store
RegisterRxCallback_context(d, cb, ctx) ==
  /\ ~halted /\ pc = "idle" /\ d \in Created
  /\ IF ~PIOS_RFM22B_validate(pios_rfm22b_devs[d])
       THEN AssertFails("RegisterRx", d)
       ELSE /\ pios_rfm22b_devs' = [pios_rfm22b_devs EXCEPT ![d].rx_in_context = ctx]
            /\ pc' = "rx_cb" /\ t_dev' = d /\ t_cb' = cb /\ t_ctx' = ctx
            /\ UNCHANGED << pios_rfm22b_num_devs, registered, pkts, t_p, t_n,
                            halted, DevHist, BindHist >>
            /\ s_preempted' = FALSE
            /\ ev' = [NoEv EXCEPT !.op = "RegisterRx", !.dev = d,
                                  !.changed = Changed]

\* PIOS_RFM22B_RegisterRxCallback: rfm22b_dev->rx_in_cb = rx_in_cb, return
RegisterRxCallback_cb ==
  /\ ~halted /\ pc = "rx_cb"
  /\ pios_rfm22b_devs' = [pios_rfm22b_devs EXCEPT ![t_dev].rx_in_cb = t_cb]
  /\ s_rxBind' = [s_rxBind EXCEPT ![t_dev] = t_ctx]
  /\ pc' = "idle" /\ t_dev' = 0 /\ t_cb' = NULL /\ t_ctx' = 0
  /\ UNCHANGED << pios_rfm22b_num_devs, registered, pkts, t_p, t_n, halted,
                  DevHist, s_preempted, s_txBind >>
  /\ ev' = [NoEv EXCEPT !.op = "RegisterRx_cb", !.dev = t_dev,
                        !.changed = Changed]

\* PIOS_RFM22B_RegisterTxCallback, up to and including the context store
RegisterTxCallback_context(d, cb, ctx) ==
  /\ ~halted /\ pc = "idle" /\ d \in Created
  /\ IF ~PIOS_RFM22B_validate(pios_rfm22b_devs[d])
       THEN AssertFails("RegisterTx", d)
       ELSE /\ pios_rfm22b_devs' = [pios_rfm22b_devs EXCEPT ![d].tx_out_context = ctx]
            /\ pc' = "tx_cb" /\ t_dev' = d /\ t_cb' = cb /\ t_ctx' = ctx
            /\ UNCHANGED << pios_rfm22b_num_devs, registered, pkts, t_p, t_n,
                            halted, DevHist, BindHist >>
            /\ s_preempted' = FALSE
            /\ ev' = [NoEv EXCEPT !.op = "RegisterTx", !.dev = d,
                                  !.changed = Changed]

\* PIOS_RFM22B_RegisterTxCallback: rfm22b_dev->tx_out_cb = tx_out_cb, return
RegisterTxCallback_cb ==
  /\ ~halted /\ pc = "tx_cb"
  /\ pios_rfm22b_devs' = [pios_rfm22b_devs EXCEPT ![t_dev].tx_out_cb = t_cb]
  /\ s_txBind' = [s_txBind EXCEPT ![t_dev] = t_ctx]
  /\ pc' = "idle" /\ t_dev' = 0 /\ t_cb' = NULL /\ t_ctx' = 0
  /\ UNCHANGED << pios_rfm22b_num_devs, registered, pkts, t_p, t_n, halted,
                  DevHist, s_preempted, s_rxBind >>
  /\ ev' = [NoEv EXCEPT !.op = "RegisterTx_cb", !.dev = t_dev,
                        !.changed = Changed]

\* ---------------------------------------------------------- start_transmit
\* Every step of PIOS_RFM22B_TxStart but the first leaves the same variables
TxFrame == UNCHANGED << pios_rfm22b_num_devs, registered, t_cb, t_ctx, halted,
                        BindHist >>

\* mutation of NeedsPacket: a packet is fetched on every call
Mutant_NeedsPacket(p) == TRUE

\* if (p == NULL): a TX packet is fetched only when there is no current one
NeedsPacket(p) == p = NULL

\* PHPacketHandle p = rfm22b_dev->cur_tx_packet; if (p == NULL)
TxStart_entry(d) ==
  /\ ~halted /\ pc = "idle" /\ d \in Created
  /\ IF ~PIOS_RFM22B_validate(pios_rfm22b_devs[d])
       THEN AssertFails("TxStart", d)
       ELSE LET p == pios_rfm22b_devs[d].cur_tx_packet IN
            /\ t_dev' = d /\ t_p' = p /\ t_n' = 0
            /\ pc' = IF NeedsPacket(p) THEN "tx_get" ELSE "tx_pull"
            /\ s_preempted' = FALSE
            /\ UNCHANGED << pios_rfm22b_devs, pkts, DevHist >>
            /\ TxFrame
            /\ ev' = [NoEv EXCEPT !.op = "TxStart", !.dev = d, !.changed = Changed]

\* mutation of TxStart_get_next: the early return is missing
Mutant_TxStart_get_next(p) == "tx_init"

\* if (!p) return; where the task context goes after PHGetTXPacket
TxStart_get_next(p) == IF p = NULL THEN "idle" ELSE "tx_init"

\* p = PHGetTXPacket(rfm22b_dev->packet_handler); if (!p) return;
TxStart_get ==
  /\ ~halted /\ pc = "tx_get"
  /\ \E p \in PHGetTXPacket(t_dev) :
       /\ pc' = TxStart_get_next(p)
       /\ IF p = NULL
            THEN /\ t_dev' = 0 /\ t_p' = NULL
                 /\ pkts' = pkts
            ELSE /\ t_dev' = t_dev /\ t_p' = p
                 /\ pkts' = [pkts EXCEPT ![t_dev][p].held = TRUE]
       /\ UNCHANGED << pios_rfm22b_devs, t_n, DevHist, s_preempted >>
       /\ TxFrame
       /\ ev' = [NoEv EXCEPT !.op = "TxStart_get", !.dev = t_dev, !.got = p,
                             !.ret = IF p = NULL THEN 1 ELSE 0,
                             !.changed = Changed]

\* p->header.type = PACKET_TYPE_DATA; p->header.data_size = 0;
TxStart_init ==
  /\ ~halted /\ pc = "tx_init"
  /\ pkts' = [pkts EXCEPT ![t_dev][t_p].type = PACKET_TYPE_DATA,
                          ![t_dev][t_p].data_size = 0,
                          ![t_dev][t_p].pulled = 0,
                          ![t_dev][t_p].sent = 0]
  /\ pc' = "tx_setcur"
  /\ UNCHANGED << pios_rfm22b_devs, t_dev, t_p, t_n, DevHist, s_preempted >>
  /\ TxFrame
  /\ ev' = [NoEv EXCEPT !.op = "TxStart_init", !.dev = t_dev, !.changed = Changed]

\* rfm22b_dev->cur_tx_packet = p;
TxStart_setcur ==
  /\ ~halted /\ pc = "tx_setcur"
  /\ pios_rfm22b_devs' = [pios_rfm22b_devs EXCEPT ![t_dev].cur_tx_packet = t_p]
  /\ s_age' = [s_age EXCEPT ![t_dev] = 0]
  /\ pc' = "tx_pull"
  /\ UNCHANGED << pkts, t_dev, t_p, t_n, s_quiet, s_since, s_loader, s_preempted >>
  /\ TxFrame
  /\ ev' = [NoEv EXCEPT !.op = "TxStart_setcur", !.dev = t_dev, !.changed = Changed]

\* mutation of TxRoom: the whole payload is offered on every pull
Mutant_TxRoom(packet) == PH_MAX_DATA

\* the room offered to the transmit callback: PH_MAX_DATA - p->header.data_size
TxRoom(packet) == PH_MAX_DATA - packet.data_size

\* bytes_to_send = (rfm22b_dev->tx_out_cb)(rfm22b_dev->tx_out_context,
\*     p->data + p->header.data_size, PH_MAX_DATA - p->header.data_size, ...)
\* Calling a null tx_out_cb is a jump to address 0: a hard fault.
TxStart_pull ==
  /\ ~halted /\ pc = "tx_pull"
  /\ LET dev == pios_rfm22b_devs[t_dev]
         room == TxRoom(pkts[t_dev][t_p])
         e == [NoEv EXCEPT !.op = "TxStart_pull", !.dev = t_dev, !.cbkind = "tx",
                           !.offset = pkts[t_dev][t_p].data_size, !.room = room,
                           !.cb = dev.tx_out_cb, !.ctx = dev.tx_out_context]
     IN
     IF dev.tx_out_cb = NULL
       THEN /\ halted' = TRUE
            /\ UNCHANGED << pios_rfm22b_devs, pios_rfm22b_num_devs, registered,
                            pkts, TaskVars, HistVars >>
            /\ ev' = [e EXCEPT !.ret = -3, !.changed = Changed]
       ELSE \E n \in 0..room :
            /\ t_n' = n
            /\ pkts' = [pkts EXCEPT ![t_dev][t_p].pulled = @ + n]
            /\ pc' = "tx_add"
            /\ UNCHANGED << pios_rfm22b_devs, t_dev, t_p, DevHist, s_preempted >>
            /\ TxFrame
            /\ ev' = [e EXCEPT !.cblen = n, !.ret = room,
                                !.stale = (n > 0 /\ ~pkts[t_dev][t_p].held)]

\* p->header.data_size += bytes_to_send;
TxStart_add ==
  /\ ~halted /\ pc = "tx_add"
  /\ LET size == pkts[t_dev][t_p].data_size + t_n IN
     /\ pkts' = [pkts EXCEPT ![t_dev][t_p].data_size = size]
     /\ s_quiet' = [s_quiet EXCEPT ![t_dev] =
          @ /\ size < pios_rfm22b_devs[t_dev].cfg.minPacketSize]
  /\ pc' = "tx_check" /\ t_n' = 0
  /\ UNCHANGED << pios_rfm22b_devs, t_dev, t_p, s_age, s_since, s_loader, s_preempted >>
  /\ TxFrame
  /\ ev' = [NoEv EXCEPT !.op = "TxStart_add", !.dev = t_dev,
                        !.stale = ~pkts[t_dev][t_p].held, !.changed = Changed]

\* mutation of OverThreshold: the packet goes out one byte early
Mutant_OverThreshold(size, cfg) == size + 1 >= cfg.minPacketSize

\* if (p->header.data_size >= rfm22b_dev->cfg->minPacketSize)
OverThreshold(size, cfg) == size >= cfg.minPacketSize

\* the threshold test; PHTransmitPacket(rfm22b_dev->packet_handler, p) when it
\* holds, return when it does not
TxStart_check ==
  /\ ~halted /\ pc = "tx_check"
  /\ IF OverThreshold(pkts[t_dev][t_p].data_size, pios_rfm22b_devs[t_dev].cfg)
       THEN /\ pkts' = [pkts EXCEPT ![t_dev] = PHTransmitPacket(@, t_p)]
            /\ pc' = "tx_clear" /\ t_dev' = t_dev /\ t_p' = t_p
            /\ UNCHANGED << pios_rfm22b_devs, t_n, DevHist, s_preempted >>
            /\ TxFrame
            /\ ev' = [TransmitEv([NoEv EXCEPT !.op = "TxStart_send",
                                              !.dev = t_dev], t_dev, t_p)
                        EXCEPT !.changed = Changed]
       ELSE /\ pc' = "idle" /\ t_dev' = 0 /\ t_p' = NULL
            /\ UNCHANGED << pios_rfm22b_devs, pkts, t_n, DevHist, s_preempted >>
            /\ TxFrame
            /\ ev' = [NoEv EXCEPT !.op = "TxStart_ret", !.dev = t_dev,
                                  !.size = pkts[t_dev][t_p].data_size,
                                  !.changed = Changed]

\* rfm22b_dev->cur_tx_packet = NULL;
TxStart_clear ==
  /\ ~halted /\ pc = "tx_clear"
  /\ pios_rfm22b_devs' = [pios_rfm22b_devs EXCEPT ![t_dev].cur_tx_packet = NULL]
  /\ s_age' = [s_age EXCEPT ![t_dev] = 0]
  /\ pc' = "tx_reset"
  /\ UNCHANGED << pkts, t_dev, t_p, t_n, s_quiet, s_since, s_loader, s_preempted >>
  /\ TxFrame
  /\ ev' = [NoEv EXCEPT !.op = "TxStart_clear", !.dev = t_dev, !.changed = Changed]

\* rfm22b_dev->countdown_timer = (uint32_t)((float)(cfg->sendTimeout) / 0.625);
TxStart_reset ==
  /\ ~halted /\ pc = "tx_reset"
  /\ pios_rfm22b_devs' = [pios_rfm22b_devs EXCEPT ![t_dev].countdown_timer =
                            CountdownReload(pios_rfm22b_devs[t_dev].cfg)]
  /\ pc' = "idle" /\ t_dev' = 0 /\ t_p' = NULL
  /\ s_since' = [s_since EXCEPT ![t_dev] = 0]
  /\ s_loader' = [s_loader EXCEPT ![t_dev] = "tx"]
  /\ UNCHANGED << pkts, t_n, s_quiet, s_age, s_preempted >>
  /\ TxFrame
  /\ ev' = [NoEv EXCEPT !.op = "TxStart_reset", !.dev = t_dev, !.changed = Changed]

\* -------------------------------------------------------------- the system
Next ==
  \/ \E cfg \in Cfgs : PIOS_RFM22B_Init(cfg)
  \/ \E d \in Devs : PIOS_RFM22B_Timer_Callback(d)
  \/ \E d \in Devs : CorruptMagic(d)
  \/ \E d \in Devs : PIOS_RFM22B_RxStart(d)
  \/ \E d \in Devs : PIOS_RFM22B_ChangeBaud(d)
  \/ \E d \in Devs, a \in RxBindArgs : RegisterRxCallback_context(d, a[1], a[2])
  \/ RegisterRxCallback_cb
  \/ \E d \in Devs, a \in TxBindArgs : RegisterTxCallback_context(d, a[1], a[2])
  \/ RegisterTxCallback_cb
  \/ \E d \in Devs : TxStart_entry(d)
  \/ TxStart_get
  \/ TxStart_init
  \/ TxStart_setcur
  \/ TxStart_pull
  \/ TxStart_add
  \/ TxStart_check
  \/ TxStart_clear
  \/ TxStart_reset

Spec == Init /\ [][Next]_vars

\* =================================================================== claims
Dev(d) == pios_rfm22b_devs[d]
\* the configured countdown reload value of device d, in ticks
Interval(d) == (Dev(d).cfg.sendTimeout * 8) \div 5
MinPacketSize(d) == Dev(d).cfg.minPacketSize
InTxStart == pc \in {"tx_get", "tx_init", "tx_setcur", "tx_pull", "tx_add",
                     "tx_check", "tx_clear", "tx_reset"}
\* the steps of start_transmit other than the one that may transmit
QuietTxSteps == {"TxStart", "TxStart_get", "TxStart_init", "TxStart_setcur",
                 "TxStart_pull", "TxStart_add", "TxStart_ret", "TxStart_clear",
                 "TxStart_reset"}

\* C1: as long as every pull has left the packet below minPacketSize and no
\* tick has brought the countdown to zero, no step calls PHTransmitPacket and
\* no sendBuffer call reaches the transport.
C1_NoFlushWhileQuiet ==
  (ev.txpkt # NULL \/ ev.sendlen >= 0) => ~s_quiet[ev.dev]

\* C1 witness: bytes are pending below the threshold, ticks have run without
\* an expiry, and nothing has been transmitted.
C1_Witness ==
  \E d \in Created :
    /\ s_quiet[d] /\ ev.op = "Tick" /\ ev.dev = d /\ ~ev.expired
    /\ Dev(d).cur_tx_packet # NULL
    /\ pkts[d][Dev(d).cur_tx_packet].data_size > 0

\* C2: a current packet is handed to PHTransmitPacket, with whatever length it
\* has, by the tick that brings the countdown to zero, in exactly one transmit
\* of that tick; no other tick transmits; and a packet never waits for more
\* than `interval` ticks.
C2_TimeoutFlush ==
  /\ (ev.op = "Tick" /\ ev.expired /\ ev.cur # NULL) =>
        (ev.txpkt = ev.cur /\ ev.sendlen = ev.size /\ ev.size >= 0)
  /\ (ev.op = "Tick" /\ ~ev.expired) => (ev.txpkt = NULL /\ ev.sendlen = -1)
  /\ \A d \in Created :
        Dev(d).cur_tx_packet # NULL => s_age[d] <= Interval(d)

\* C2, for a reload value of at least one tick: the packet is flushed by the
\* tick that ends the countdown, at most `interval` ticks after it was set.
C2_PositiveInterval ==
  /\ (ev.op = "Tick" /\ ev.expired /\ ev.cur # NULL) =>
        (ev.txpkt = ev.cur /\ ev.sendlen = ev.size /\ ev.size >= 0)
  /\ (ev.op = "Tick" /\ ~ev.expired) => (ev.txpkt = NULL /\ ev.sendlen = -1)
  /\ \A d \in Created :
        (Interval(d) >= 1 /\ Dev(d).cur_tx_packet # NULL) =>
           s_age[d] <= Interval(d) - 1

\* C3: start_transmit calls PHTransmitPacket in a call exactly when the length
\* after the pull is >= minPacketSize; the call then ends with no current
\* packet and the countdown at the full interval, and the next expiry comes
\* `interval` ticks after that load, neither earlier nor later.
C3_SizeFlush ==
  /\ ev.op = "TxStart_send" => (ev.txpkt # NULL /\ ev.size >= MinPacketSize(ev.dev))
  /\ ev.op = "TxStart_ret" => (ev.txpkt = NULL /\ ev.size < MinPacketSize(ev.dev))
  /\ ev.op \in QuietTxSteps => ev.txpkt = NULL
  /\ ev.op = "TxStart_reset" =>
        /\ Dev(ev.dev).cur_tx_packet = NULL
        /\ Dev(ev.dev).countdown_timer = Interval(ev.dev)
        /\ s_since[ev.dev] = 0
  /\ (ev.op = "Tick" /\ ev.expired) => ev.ticks = Interval(ev.dev)
  /\ \A d \in Created : s_loader[d] = "tx" => s_since[d] <= Interval(d)

\* C3, for a reload value of at least one tick.
C3_PositiveInterval ==
  /\ ev.op = "TxStart_send" => (ev.txpkt # NULL /\ ev.size >= MinPacketSize(ev.dev))
  /\ ev.op = "TxStart_ret" => (ev.txpkt = NULL /\ ev.size < MinPacketSize(ev.dev))
  /\ ev.op \in QuietTxSteps => ev.txpkt = NULL
  /\ ev.op = "TxStart_reset" =>
        /\ Dev(ev.dev).cur_tx_packet = NULL
        /\ Dev(ev.dev).countdown_timer = Interval(ev.dev)
        /\ s_since[ev.dev] = 0
  /\ (ev.op = "Tick" /\ ev.expired) => ev.ticks = Interval(ev.dev)
  /\ \A d \in Created :
        (Interval(d) >= 1 /\ s_loader[d] = "tx") => s_since[d] <= Interval(d) - 1

\* C4: at the end of an operation that flushed a packet (the last statement of
\* a start_transmit that crossed the threshold, or a tick that transmitted),
\* the countdown equals the configured interval and there is no current
\* packet, wherever ticks fell inside the start_transmit call.
C4_AfterFlush ==
  (ev.op = "TxStart_reset" \/ (ev.op = "Tick" /\ ev.txpkt # NULL)) =>
     /\ Dev(ev.dev).countdown_timer = Interval(ev.dev)
     /\ Dev(ev.dev).cur_tx_packet = NULL

\* C4 witness: a flushing start_transmit call ends after a tick ran inside it.
C4_Witness == ev.op = "TxStart_reset" /\ s_preempted

\* C5: a callback is always invoked with the context of the bind call that
\* stored it: the receive callback by the tick, the transmit callback by
\* start_transmit.
C5_CallbackContextPaired ==
  /\ ev.cbkind = "rx" => (ev.cb # NULL /\ ev.ctx = s_rxBind[ev.dev])
  /\ (ev.cbkind = "tx" /\ ev.cb # NULL) => ev.ctx = s_txBind[ev.dev]

\* C6: in every state, also inside a start_transmit call that a tick has
\* preempted, a device holds at most one packet obtained from PHGetTXPacket
\* and not yet handed to PHTransmitPacket, and PHGetTXPacket is called only
\* when the device has no current packet.
C6_AtMostOnePacket ==
  /\ \A d \in Devs : Cardinality({k \in Pkts : pkts[d][k].held}) <= 1
  /\ ev.got # -1 => Dev(ev.dev).cur_tx_packet = NULL

\* C6 witness: a tick has preempted a start_transmit call that holds a packet.
C6_Witness ==
  /\ InTxStart /\ s_preempted
  /\ \E k \in Pkts : pkts[t_dev][k].held

\* C7: every sendBuffer call carries the data_size of the flushed packet's
\* header, which equals the bytes the transmit callback reported producing
\* into that packet.
C7_SendLength ==
  ev.sendlen >= 0 =>
     /\ ev.sendlen = pkts[ev.dev][ev.txpkt].data_size
     /\ ev.sendlen = pkts[ev.dev][ev.txpkt].pulled

\* C7, first half: the length sent is the header's data_size.
C7_HeaderLength ==
  ev.sendlen >= 0 => ev.sendlen = pkts[ev.dev][ev.txpkt].data_size

\* C8: when start_transmit finds no current packet and PHGetTXPacket returns
\* none, the call returns having changed nothing: no callback is invoked, no
\* record, packet or countdown is written, nothing is transmitted, and the
\* task context is free for a later call.
C8_Backpressure ==
  /\ (ev.op = "TxStart_get" /\ ev.got = NULL) =>
        /\ ~ev.changed /\ ev.cbkind = "none"
        /\ ev.txpkt = NULL /\ ev.sendlen = -1
        /\ Dev(ev.dev).cur_tx_packet = NULL
        /\ pc = "idle" /\ t_p = NULL /\ ~halted
  /\ ev.op = "TxStart" =>
        (~ev.changed /\ ev.cbkind = "none" /\ ev.txpkt = NULL /\ ev.sendlen = -1)

\* C8 witness: the call that found no packet was preempted by a tick, on a
\* device whose countdown is running.
C8_Witness ==
  /\ ev.op = "TxStart_get" /\ ev.got = NULL /\ s_preempted
  /\ Dev(ev.dev).countdown_timer < Interval(ev.dev)

\* C9: create succeeds while the pool has a free record and fails once it is
\* full; a failed create changes no record, no packet and not the device
\* count and registers no tick callback; the count never exceeds the capacity.
C9_BoundedPool ==
  /\ pios_rfm22b_num_devs <= PIOS_RFM22B_MAX_DEVS
  /\ registered \subseteq Created
  /\ (ev.op = "Init" /\ ev.ret = -1) =>
        (~ev.changed /\ pios_rfm22b_num_devs = PIOS_RFM22B_MAX_DEVS)
  /\ (ev.op = "Init" /\ ev.ret = 0) =>
        /\ ev.dev = pios_rfm22b_num_devs /\ ev.dev \in registered
        /\ Dev(ev.dev).magic = PIOS_RFM22B_DEV_MAGIC
        /\ Dev(ev.dev).cur_tx_packet = NULL
        /\ Dev(ev.dev).countdown_timer = Interval(ev.dev)

\* C9 witness: a create fails while an existing device has a callback bound
\* and a packet pending.
C9_Witness ==
  /\ ev.op = "Init" /\ ev.ret = -1
  /\ \E d \in Created : Dev(d).rx_in_cb # NULL /\ Dev(d).cur_tx_packet # NULL

\* C10: a tick for a record whose tag is not the magic does nothing: no
\* transport read, no callback, no countdown step, no transmit, no write.
C10_InvalidTickSkipped ==
  (ev.op = "Tick" /\ Dev(ev.dev).magic # PIOS_RFM22B_DEV_MAGIC) =>
     /\ ev.ret = -1 /\ ~ev.changed
     /\ ~ev.rxread /\ ev.cbkind = "none"
     /\ ~ev.expired /\ ev.txpkt = NULL /\ ev.sendlen = -1

\* C10 witness: the skipped tick found a record with a receive callback bound
\* and a packet pending.
C10_Witness ==
  /\ ev.op = "Tick" /\ Dev(ev.dev).magic # PIOS_RFM22B_DEV_MAGIC
  /\ Dev(ev.dev).rx_in_cb # NULL /\ Dev(ev.dev).cur_tx_packet # NULL

\* the first steps of the operations of the channel interface
NormalOps == {"RxStart", "ChangeBaud", "TxStart", "RegisterRx", "RegisterTx"}

\* C11: set_baud, start_receive, start_transmit and the two bind operations,
\* called on a record whose tag is not the magic, halt the process at the
\* assertion: no field is read into a local or written, no callback is
\* invoked, no packet is obtained or transmitted, and the operation goes no
\* further.
C11_AssertHalts ==
  /\ (ev.op \in NormalOps /\ Dev(ev.dev).magic # PIOS_RFM22B_DEV_MAGIC) =>
        /\ ev.ret = -2 /\ halted /\ ~ev.changed
        /\ ev.cbkind = "none" /\ ev.got = -1 /\ ~ev.rxread
        /\ ev.txpkt = NULL /\ ev.sendlen = -1
        /\ pc = "idle" /\ t_dev = 0 /\ t_p = NULL /\ t_cb = NULL
  /\ (ev.op \in NormalOps /\ Dev(ev.dev).magic = PIOS_RFM22B_DEV_MAGIC) =>
        (ev.ret # -2 /\ ~halted)

\* C11 witness: start_transmit halts on a corrupted record that has a
\* transmit callback bound and a packet pending.
C11_Witness ==
  /\ ev.op = "TxStart" /\ ev.ret = -2 /\ halted
  /\ Dev(ev.dev).tx_out_cb # NULL /\ Dev(ev.dev).cur_tx_packet # NULL

C13_HandedOnce == ~ev.stale

\* C13, what holds: a packet is written or transmitted after its handoff only
\* in a start_transmit call that a tick has preempted.
C13_OnlyWhenPreempted == ev.stale => s_preempted

\* C14: a tick on a valid device reads the transport, for RX_BUF_LEN bytes at
\* most, exactly when a receive callback is bound; it invokes the receive
\* callback exactly when the read returned n > 0 bytes, with n bytes
\* (1 <= n <= RX_BUF_LEN) and the context held in the record; with no
\* callback bound nothing is read; and the countdown step runs in every case.
C14_InboundDispatch ==
  (ev.op = "Tick" /\ ev.ret # -1) =>
     /\ ev.rxread <=> Dev(ev.dev).rx_in_cb # NULL
     /\ ev.rxread => ev.rxlen \in 0..RX_BUF_LEN
     /\ ~ev.rxread => ev.rxlen = -1
     /\ ev.cbkind = "rx" <=> ev.rxlen > 0
     /\ ev.cbkind = "rx" =>
          /\ ev.cblen = ev.rxlen
          /\ ev.cb = Dev(ev.dev).rx_in_cb
          /\ ev.ctx = Dev(ev.dev).rx_in_context
     /\ ev.cbkind # "tx"
     /\ ev.counted

\* C14 witness: a tick delivers a full buffer to the receive callback and its
\* countdown step flushes the current packet.
C14_Witness ==
  /\ ev.op = "Tick" /\ ev.cbkind = "rx" /\ ev.cblen = RX_BUF_LEN
  /\ ev.expired /\ ev.txpkt # NULL

\* the parts of C15 that do not depend on the reload value: the countdown step
\* of a tick on a valid device
CountdownStepEffects ==
  (ev.op = "Tick" /\ ev.ret # -1) =>
     /\ ev.counted /\ ev.after = ev.before - 1
     /\ ev.expired <=> ev.after = 0
     /\ ev.got = -1
     /\ ~ev.expired =>
          /\ Dev(ev.dev).countdown_timer = ev.after
          /\ Dev(ev.dev).cur_tx_packet = ev.cur
          /\ ev.txpkt = NULL /\ ev.sendlen = -1 /\ ~ev.tickwrote
     /\ ev.expired =>
          /\ Dev(ev.dev).countdown_timer = Interval(ev.dev)
          /\ Dev(ev.dev).cur_tx_packet = NULL
          /\ ev.cur = NULL =>
               (ev.txpkt = NULL /\ ev.sendlen = -1 /\ ~ev.tickwrote)

\* C15: every tick on a valid device takes one from the countdown; a tick that
\* leaves it above zero transmits nothing and leaves the current packet and
\* its length alone; a tick that brings it to zero reloads the interval, with
\* or without a current packet, and without one transmits nothing and obtains
\* no packet; and while start_transmit does not reload the countdown, an
\* expiry comes `interval` ticks after the previous load, never later.
C15_CountdownStep ==
  /\ CountdownStepEffects
  /\ (ev.op = "Tick" /\ ev.ret # -1) => ev.before # 0
  /\ (ev.op = "Tick" /\ ev.expired) => ev.ticks = Interval(ev.dev)
  /\ \A d \in Created : s_loader[d] # "tx" => s_since[d] <= Interval(d)

\* C15, for a reload value of at least one tick.
C15_PositiveInterval ==
  /\ CountdownStepEffects
  /\ (ev.op = "Tick" /\ ev.ret # -1 /\ Interval(ev.dev) >= 1) => ev.before # 0
  /\ (ev.op = "Tick" /\ ev.expired) => ev.ticks = Interval(ev.dev)
  /\ \A d \in Created :
        (Interval(d) >= 1 /\ s_loader[d] # "tx") => s_since[d] <= Interval(d) - 1

\* t is sendTimeout / 0.625 cut to an integer: t <= sendTimeout * 8 / 5 < t + 1
IsTruncatedQuotient(t, sendTimeout) ==
  /\ t >= 0
  /\ 5 * t <= 8 * sendTimeout
  /\ 8 * sendTimeout < 5 * (t + 1)

C17_PayloadCapacity ==
  /\ \A d \in Devs : \A k \in Pkts :
        pkts[d][k].data_size >= 0 /\ pkts[d][k].data_size <= PH_MAX_DATA
  /\ (ev.op = "TxStart_pull" /\ ev.ret # -3) =>
        /\ ev.offset = pkts[ev.dev][t_p].data_size
        /\ ev.room = PH_MAX_DATA - ev.offset
        /\ ev.room >= 0
        /\ ev.cblen \in 0..ev.room

\* C17 witness: with minPacketSize above PH_MAX_DATA a full packet is offered
\* no room by a further pull.
C17_Witness ==
  /\ ev.op = "TxStart_pull" /\ ev.ret # -3 /\ ev.room = 0
  /\ ev.offset = PH_MAX_DATA
  /\ MinPacketSize(ev.dev) > PH_MAX_DATA

\* the larger of two integers
Max(a, b) == IF a >= b THEN a ELSE b

\* C18: between operations the countdown of a created device lies in
\* 1 .. max(1, interval), for every configuration, and the decrement of the
\* tick never starts from zero (it never wraps).
C18_CountdownInRange ==
  /\ \A d \in Created :
        pc = "idle" =>
          /\ Dev(d).countdown_timer >= 1
          /\ Dev(d).countdown_timer <= Max(1, Interval(d))
  /\ (ev.op = "Tick" /\ ev.counted) => (ev.before # 0 /\ ev.after # UINT32_MAX)

\* C18, for a reload value of at least one tick: the countdown stays in
\* 1 .. interval in every state and the decrement never wraps.
C18_PositiveInterval ==
  /\ \A d \in Created :
        Interval(d) >= 1 =>
          /\ Dev(d).countdown_timer >= 1
          /\ Dev(d).countdown_timer <= Interval(d)
  /\ (ev.op = "Tick" /\ ev.counted /\ Interval(ev.dev) >= 1) =>
        (ev.before # 0 /\ ev.after # UINT32_MAX)

\* C19: the pull step of start_transmit calls the transmit callback only when
\* one is bound, also before the first bind_transmit_callback and after a
\* rebind to a null callback.
C19_NoNullTxCallback == ev.cbkind = "tx" => ev.cb # NULL

\* C19, what holds: the tick tests the receive callback before it calls it.
C19_RxCallbackTested == ev.cbkind = "rx" => ev.cb # NULL

\* C20: no byte of a packet is passed to sendBuffer twice (a packet never has
\* more bytes sent than the transmit callback produced into it), and no
\* produced byte is left behind: once start_transmit has returned, a packet
\* that has been handed to PHTransmitPacket has had every produced byte sent.
C20_ByteConservation ==
  \A d \in Devs : \A k \in Pkts :
    /\ pkts[d][k].sent <= pkts[d][k].pulled
    /\ (pc = "idle" /\ ~pkts[d][k].held) => pkts[d][k].sent = pkts[d][k].pulled

\* C20, what holds: between operations the bytes of a packet that has not been
\* handed over are all recorded in its header and none has been sent.
C20_PendingBytesRecorded ==
  \A d \in Devs : \A k \in Pkts :
    (pc = "idle" /\ pkts[d][k].held) =>
       /\ pkts[d][k].data_size = pkts[d][k].pulled
       /\ pkts[d][k].sent = 0
       /\ Dev(d).cur_tx_packet = k

====
